---- MODULE Spec2Model ----
(***************************************************************************)
(* Model of the two maintenance scripts of the image-classifier app:       *)
(*   simple_upload.py   - upload_files(): pushes model artifacts to the hub *)
(*   convert_model.py   - synthesizes public/tfjs_model/model.json          *)
(* The two scripts share no state; a behaviour interleaves one run of each. *)
(***************************************************************************)
EXTENDS Integers, Sequences, FiniteSets, TLC

VARIABLES
    \* ---- simple_upload.py ----
    HF_TOKEN,       \* value of os.getenv('HF_TOKEN')
    localFs,        \* the paths that exist in the working directory
    upc,            \* position of upload_files
    fileIdx,        \* index of the next entry of files_to_upload
    calls,          \* remote hub calls made so far, in order
    probed,         \* paths handed to os.path.exists so far, in order
    out,            \* lines printed by upload_files, in order
    \* ---- convert_model.py ----
    modelFile,      \* what is stored at model_path
    outDirExists,   \* whether public/tfjs_model/ exists
    cpc,            \* position of the script
    model,          \* the loaded Keras model (its inputs / outputs)
    input_shape,
    output_classes,
    tfjs_model_config,
    fsWrites,       \* documents written to the local filesystem, in order
    exitStatus      \* <<>> while running, <<status>> once the process ended

uvars == <<HF_TOKEN, localFs, upc, fileIdx, calls, probed, out>>
cvars == <<modelFile, outDirExists, cpc, model, input_shape, output_classes,
           tfjs_model_config, fsWrites, exitStatus>>
vars == <<HF_TOKEN, localFs, upc, fileIdx, calls, probed, out,
          modelFile, outDirExists, cpc, model, input_shape, output_classes,
          tfjs_model_config, fsWrites, exitStatus>>

\* Python's None
None == "None"

(***************************************************************************)
(* simple_upload.py                                                        *)
(***************************************************************************)

repo_id == "TrashHobbit/dakota-ai-cifar10-classifier"

files_to_upload ==
    << "README.md", "best_cifar10_model.keras", "saved_model/saved_model.pb" >>

variables_dir == "saved_model/variables"

\* The values os.getenv('HF_TOKEN') can return: None when the variable is
\* unset, the empty string, or a token.
TokenValues == { None, "", "hf_token" }

\* The local paths the script looks at.
LocalPaths == { files_to_upload[i] : i \in 1..Len(files_to_upload) } \cup { variables_dir }

\* Python truthiness of an optional string: `if not HF_TOKEN` takes the
\* branch for None and for "".
Truthy_NoneOnly(v) == v # None
Truthy(v) == v # None /\ v # ""

\* os.path.exists
exists(p) == p \in localFs

Call(op, arg, ok) == [op |-> op, arg |-> arg, ok |-> ok]
Line(text, arg) == [text |-> text, arg |-> arg]

\* lines 13-17: read the credential; without one, report and return.
GetToken ==
    /\ upc = "start"
    /\ IF ~Truthy(HF_TOKEN)
       THEN /\ out' = out \o << Line("Please set HF_TOKEN environment variable", ""),
                                Line("Run: export HF_TOKEN=your_huggingface_token_here", "") >>
            /\ upc' = "returned"
       ELSE /\ out' = out
            /\ upc' = "api"
    /\ UNCHANGED <<HF_TOKEN, localFs, fileIdx, calls, probed>>
    /\ UNCHANGED cvars

\* lines 22-23: HfApi() and api.set_access_token(HF_TOKEN) stand outside any
\* try block: when the client library raises here (set_access_token is not
\* provided by every release of the library) the exception leaves upload_files.
ApiSetup ==
    /\ upc = "api"
    /\ \E ok \in BOOLEAN : upc' = IF ok THEN "repo_check" ELSE "raised"
    /\ UNCHANGED <<HF_TOKEN, localFs, fileIdx, calls, probed, out>>
    /\ UNCHANGED cvars

\* lines 25-33 (and the two banner lines 42-43 that follow a found repository)
RepoInfo_NoReturn ==
    /\ upc = "repo_check"
    /\ \E ok \in BOOLEAN :
        /\ calls' = Append(calls, Call("repo_info", repo_id, ok))
        /\ out' = out \o
              (IF ok THEN << Line("Repository found: ", repo_id) >>
                     ELSE << Line("Repository not found: ", "e") >>)
              \o << Line("Uploading files to Hugging Face Hub...", ""),
                    Line("Repository: ", repo_id) >>
        /\ upc' = "loop"
    /\ UNCHANGED <<HF_TOKEN, localFs, fileIdx, probed>>
    /\ UNCHANGED cvars

RepoInfo ==
    /\ upc = "repo_check"
    /\ \E ok \in BOOLEAN :
        /\ calls' = Append(calls, Call("repo_info", repo_id, ok))
        /\ IF ok
           THEN /\ out' = out \o << Line("Repository found: ", repo_id),
                                    Line("Uploading files to Hugging Face Hub...", ""),
                                    Line("Repository: ", repo_id) >>
                /\ upc' = "loop"
           ELSE /\ out' = out \o << Line("Repository not found: ", "e"),
                                    Line("The repository may not be fully created yet.", ""),
                                    Line("Please check: https://huggingface.co/", repo_id) >>
                /\ upc' = "returned"
    /\ UNCHANGED <<HF_TOKEN, localFs, fileIdx, probed>>
    /\ UNCHANGED cvars

\* Position after one iteration of the for loop: the next file, or the
\* variables directory once the list is exhausted.
AfterFile(i) == IF i >= Len(files_to_upload) THEN "dir" ELSE "loop"

\* A failed upload_file is tried once more (a retry the script does not have).
ProcessFile_Retry ==
    /\ upc = "loop"
    /\ fileIdx <= Len(files_to_upload)
    /\ LET filepath == files_to_upload[fileIdx] IN
        /\ probed' = Append(probed, filepath)
        /\ IF exists(filepath)
           THEN \E ok \in BOOLEAN :
                  /\ calls' = calls \o
                        (IF ok THEN << Call("upload_file", filepath, TRUE) >>
                               ELSE << Call("upload_file", filepath, FALSE),
                                       Call("upload_file", filepath, FALSE) >>)
                  /\ out' = out \o << Line("Uploading: ", filepath),
                                      IF ok THEN Line("Uploaded: ", filepath)
                                            ELSE Line("Failed to upload ", filepath) >>
           ELSE /\ calls' = calls
                /\ out' = out \o << Line("File not found: ", filepath),
                                    Line("Make sure the file exists and try again.", "") >>
    /\ fileIdx' = fileIdx + 1
    /\ upc' = AfterFile(fileIdx)
    /\ UNCHANGED <<HF_TOKEN, localFs>>
    /\ UNCHANGED cvars

\* A file that does not exist ends the loop (`break` after the warning).
ProcessFile_StopOnMissing ==
    /\ upc = "loop"
    /\ fileIdx <= Len(files_to_upload)
    /\ LET filepath == files_to_upload[fileIdx] IN
        /\ probed' = Append(probed, filepath)
        /\ IF exists(filepath)
           THEN \E ok \in BOOLEAN :
                  /\ calls' = Append(calls, Call("upload_file", filepath, ok))
                  /\ out' = out \o << Line("Uploading: ", filepath),
                                      IF ok THEN Line("Uploaded: ", filepath)
                                            ELSE Line("Failed to upload ", filepath) >>
                  /\ upc' = AfterFile(fileIdx)
           ELSE /\ calls' = calls
                /\ out' = out \o << Line("File not found: ", filepath),
                                    Line("Make sure the file exists and try again.", "") >>
                /\ upc' = "dir"
    /\ fileIdx' = fileIdx + 1
    /\ UNCHANGED <<HF_TOKEN, localFs>>
    /\ UNCHANGED cvars

\* The try/except around upload_file is missing: a failed upload leaves
\* upload_files as an uncaught exception.
ProcessFile_NoCatch ==
    /\ upc = "loop"
    /\ fileIdx <= Len(files_to_upload)
    /\ LET filepath == files_to_upload[fileIdx] IN
        /\ probed' = Append(probed, filepath)
        /\ IF exists(filepath)
           THEN \E ok \in BOOLEAN :
                  /\ calls' = Append(calls, Call("upload_file", filepath, ok))
                  /\ out' = out \o << Line("Uploading: ", filepath) >>
                               \o (IF ok THEN << Line("Uploaded: ", filepath) >> ELSE << >>)
                  /\ fileIdx' = IF ok THEN fileIdx + 1 ELSE fileIdx
                  /\ upc' = IF ok THEN AfterFile(fileIdx) ELSE "raised"
           ELSE /\ calls' = calls
                /\ out' = out \o << Line("File not found: ", filepath),
                                    Line("Make sure the file exists and try again.", "") >>
                /\ fileIdx' = fileIdx + 1
                /\ upc' = AfterFile(fileIdx)
    /\ UNCHANGED <<HF_TOKEN, localFs>>
    /\ UNCHANGED cvars

\* lines 45-60: one iteration of `for filepath in files_to_upload`
ProcessFile ==
    /\ upc = "loop"
    /\ fileIdx <= Len(files_to_upload)
    /\ LET filepath == files_to_upload[fileIdx] IN
        /\ probed' = Append(probed, filepath)
        /\ IF exists(filepath)
           THEN \E ok \in BOOLEAN :
                  /\ calls' = Append(calls, Call("upload_file", filepath, ok))
                  /\ out' = out \o << Line("Uploading: ", filepath),
                                      IF ok THEN Line("Uploaded: ", filepath)
                                            ELSE Line("Failed to upload ", filepath) >>
           ELSE /\ calls' = calls
                /\ out' = out \o << Line("File not found: ", filepath),
                                    Line("Make sure the file exists and try again.", "") >>
    /\ fileIdx' = fileIdx + 1
    /\ upc' = AfterFile(fileIdx)
    /\ UNCHANGED <<HF_TOKEN, localFs>>
    /\ UNCHANGED cvars

\* The try/except around upload_folder is missing.
UploadVariables_NoCatch ==
    /\ upc = "dir"
    /\ probed' = Append(probed, variables_dir)
    /\ IF exists(variables_dir)
       THEN \E ok \in BOOLEAN :
              /\ calls' = Append(calls, Call("upload_folder", variables_dir, ok))
              /\ out' = out \o << Line("Uploading variables directory: ", variables_dir) >>
                           \o (IF ok THEN << Line("Uploaded variables directory", "") >> ELSE << >>)
              /\ upc' = IF ok THEN "summary" ELSE "raised"
       ELSE /\ calls' = calls
            /\ out' = out
            /\ upc' = "summary"
    /\ UNCHANGED <<HF_TOKEN, localFs, fileIdx>>
    /\ UNCHANGED cvars

\* lines 62-75: the variables directory; there is no else branch, so a
\* directory that does not exist is skipped without a line of output.
UploadVariables ==
    /\ upc = "dir"
    /\ probed' = Append(probed, variables_dir)
    /\ IF exists(variables_dir)
       THEN \E ok \in BOOLEAN :
              /\ calls' = Append(calls, Call("upload_folder", variables_dir, ok))
              /\ out' = out \o << Line("Uploading variables directory: ", variables_dir),
                                  IF ok THEN Line("Uploaded variables directory", "")
                                        ELSE Line("Failed to upload variables: ", "e") >>
       ELSE /\ calls' = calls
            /\ out' = out
    /\ upc' = "summary"
    /\ UNCHANGED <<HF_TOKEN, localFs, fileIdx>>
    /\ UNCHANGED cvars

\* lines 77-79: the completion summary, then the function returns.
Summary ==
    /\ upc = "summary"
    /\ out' = out \o << Line("Upload complete!", ""),
                        Line("Model available at: https://huggingface.co/", repo_id),
                        Line("Ready to use your custom CIFAR-10 model in the classifier!", "") >>
    /\ upc' = "returned"
    /\ UNCHANGED <<HF_TOKEN, localFs, fileIdx, calls, probed>>
    /\ UNCHANGED cvars

UploadInit ==
    /\ HF_TOKEN \in TokenValues
    /\ localFs \in SUBSET LocalPaths
    /\ upc = "start"
    /\ fileIdx = 1
    /\ calls = << >>
    /\ probed = << >>
    /\ out = << >>

\* lines 9-79: upload_files, one step at a time
upload_files ==
    \/ GetToken
    \/ ApiSetup
    \/ RepoInfo
    \/ ProcessFile
    \/ UploadVariables
    \/ Summary

(***************************************************************************)
(* convert_model.py                                                        *)
(***************************************************************************)

model_path == "models/transfer_model.h5"
output_path == "public/tfjs_model/model.json"

\* Largest class count of the trained models considered.
MaxClasses == 10

\* Input tensor shapes of the trained models considered (batch dimension first).
InputShapes == { << None, 224, 224, 3 >>, << None, 32, 32, 3 >> }

\* Output tensor shapes of the trained models considered: [None, N].
OutputShapes == { << None, n >> : n \in 1..MaxClasses }

\* What tf.keras.models.load_model can find at model_path: nothing, a file
\* it cannot read, or a model with one input and one output tensor.
ModelFiles ==
    [ state : {"missing", "unreadable"}, inputs : { << >> }, outputs : { << >> } ]
    \cup
    [ state : {"ok"},
      inputs : { << s >> : s \in InputShapes },
      outputs : { << s >> : s \in OutputShapes } ]

NoModel == [ state |-> "missing", inputs |-> << >>, outputs |-> << >> ]
NoConfig == [ format |-> "none" ]

\* shape[-1]
Last(shape) == shape[Len(shape)]

\* lines 9-18, with exit(0) in the except branch
LoadModel_ExitZero ==
    /\ cpc = "load"
    /\ IF modelFile.state = "ok"
       THEN /\ model' = modelFile
            /\ cpc' = "inspect"
            /\ exitStatus' = exitStatus
       ELSE /\ model' = model
            /\ cpc' = "exited"
            /\ exitStatus' = << 0 >>
    /\ UNCHANGED <<modelFile, outDirExists, input_shape, output_classes,
                   tfjs_model_config, fsWrites>>
    /\ UNCHANGED uvars

\* lines 9-18: load the model; any exception ends the process with status 1.
LoadModel ==
    /\ cpc = "load"
    /\ IF modelFile.state = "ok"
       THEN /\ model' = modelFile
            /\ cpc' = "inspect"
            /\ exitStatus' = exitStatus
       ELSE /\ model' = model
            /\ cpc' = "exited"
            /\ exitStatus' = << 1 >>
    /\ UNCHANGED <<modelFile, outDirExists, input_shape, output_classes,
                   tfjs_model_config, fsWrites>>
    /\ UNCHANGED uvars

\* lines 32-33
ExtractShapes ==
    /\ cpc = "inspect"
    /\ input_shape' = Tail(model.inputs[1])
    /\ output_classes' = Last(model.outputs[1])
    /\ cpc' = "build"
    /\ UNCHANGED <<modelFile, outDirExists, model, tfjs_model_config, fsWrites, exitStatus>>
    /\ UNCHANGED uvars

\* lines 49-142: "layers"
Layers(oc) ==
    << [ class_name |-> "InputLayer",
         config |-> [ batch_input_shape |-> << None, 224, 224, 3 >>,
                      dtype |-> "float32", sparse |-> FALSE, name |-> "input_layer" ] ],
       [ class_name |-> "Conv2D",
         config |-> [ name |-> "conv2d_1", trainable |-> TRUE, filters |-> 32,
                      kernel_size |-> << 3, 3 >>, strides |-> << 1, 1 >>,
                      padding |-> "same", data_format |-> "channels_last",
                      dilation_rate |-> << 1, 1 >>, groups |-> 1,
                      activation |-> "relu", use_bias |-> TRUE,
                      kernel_regularizer |-> None, bias_regularizer |-> None,
                      kernel_constraint |-> None, bias_constraint |-> None ] ],
       [ class_name |-> "MaxPooling2D",
         config |-> [ name |-> "max_pooling2d_1", trainable |-> FALSE,
                      pool_size |-> << 2, 2 >>, padding |-> "valid",
                      strides |-> << 2, 2 >> ] ],
       [ class_name |-> "Conv2D",
         config |-> [ name |-> "conv2d_2", trainable |-> TRUE, filters |-> 64,
                      kernel_size |-> << 3, 3 >>, strides |-> << 1, 1 >>,
                      padding |-> "same", data_format |-> "channels_last",
                      dilation_rate |-> << 1, 1 >>, groups |-> 1,
                      activation |-> "relu", use_bias |-> TRUE ] ],
       [ class_name |-> "MaxPooling2D",
         config |-> [ name |-> "max_pooling2d_2", trainable |-> FALSE,
                      pool_size |-> << 2, 2 >>, padding |-> "valid",
                      strides |-> << 2, 2 >> ] ],
       [ class_name |-> "Flatten",
         config |-> [ name |-> "flatten", trainable |-> FALSE ] ],
       [ class_name |-> "Dense",
         config |-> [ name |-> "dense_1", trainable |-> TRUE, units |-> 128,
                      activation |-> "relu", use_bias |-> TRUE ] ],
       [ class_name |-> "Dense",
         config |-> [ name |-> "dense_output", trainable |-> TRUE, units |-> oc,
                      activation |-> "softmax", use_bias |-> TRUE ] ] >>

Weight(name, shape) == [ name |-> name, shape |-> shape, dtype |-> "float32" ]

\* lines 151-160, with the entries of the last layer named after a layer
\* the topology does not have
Weights_Misnamed(oc) ==
    << Weight("conv2d_1/kernel", << 3, 3, 3, 32 >>),
       Weight("conv2d_1/bias", << 32 >>),
       Weight("conv2d_2/kernel", << 3, 3, 32, 64 >>),
       Weight("conv2d_2/bias", << 64 >>),
       Weight("dense_1/kernel", << 12544, 128 >>),
       Weight("dense_1/bias", << 128 >>),
       Weight("dense_2/kernel", << 128, oc >>),
       Weight("dense_2/bias", << oc >>) >>

\* lines 151-160, with the shapes of the last layer written for ten classes
\* instead of output_classes
Weights_TenClasses(oc) ==
    << Weight("conv2d_1/kernel", << 3, 3, 3, 32 >>),
       Weight("conv2d_1/bias", << 32 >>),
       Weight("conv2d_2/kernel", << 3, 3, 32, 64 >>),
       Weight("conv2d_2/bias", << 64 >>),
       Weight("dense_1/kernel", << 12544, 128 >>),
       Weight("dense_1/bias", << 128 >>),
       Weight("dense_output/kernel", << 128, 10 >>),
       Weight("dense_output/bias", << 10 >>) >>

\* lines 151-160: "weights"
Weights(oc) ==
    << Weight("conv2d_1/kernel", << 3, 3, 3, 32 >>),
       Weight("conv2d_1/bias", << 32 >>),
       Weight("conv2d_2/kernel", << 3, 3, 32, 64 >>),
       Weight("conv2d_2/bias", << 64 >>),
       Weight("dense_1/kernel", << 12544, 128 >>),
       Weight("dense_1/bias", << 128 >>),
       Weight("dense_output/kernel", << 128, oc >>),
       Weight("dense_output/bias", << oc >>) >>

\* lines 38-163: the descriptor
TfjsModelConfig(oc) ==
    [ format |-> "layers-model",
      generatedBy |-> "TensorFlow.js Converter",
      convertedBy |-> "Custom conversion for Vercel deployment",
      modelTopology |->
        [ keras_version |-> "2.15.0",
          backend |-> "tensorflow",
          model_config |->
            [ class_name |-> "Sequential",
              config |-> [ name |-> "trained_transfer_model",
                           layers |-> Layers(oc),
                           input_layers |-> << << "input_layer", 0, 0 >> >>,
                           output_layers |-> << << "dense_output", 0, 0 >> >> ] ] ],
      weightsManifest |->
        << [ paths |-> << "weights.bin" >>, weights |-> Weights(oc) ] >> ]

\* lines 38-163
BuildConfig ==
    /\ cpc = "build"
    /\ tfjs_model_config' = TfjsModelConfig(output_classes)
    /\ cpc' = "write"
    /\ UNCHANGED <<modelFile, outDirExists, model, input_shape, output_classes,
                   fsWrites, exitStatus>>
    /\ UNCHANGED uvars

\* lines 166-167: open(..., 'w') creates or truncates the file when its
\* directory exists and raises otherwise; the exception is not caught, so
\* the interpreter ends with status 1.  The document handed to json.dump is
\* recorded as written.
WriteJson ==
    /\ cpc = "write"
    /\ IF outDirExists
       THEN /\ fsWrites' = Append(fsWrites, [ path |-> output_path, doc |-> tfjs_model_config ])
            /\ cpc' = "report"
            /\ exitStatus' = exitStatus
       ELSE /\ fsWrites' = fsWrites
            /\ cpc' = "exited"
            /\ exitStatus' = << 1 >>
    /\ UNCHANGED <<modelFile, outDirExists, model, input_shape, output_classes,
                   tfjs_model_config>>
    /\ UNCHANGED uvars

\* lines 170-182: the closing messages; the script ends with status 0.
Report ==
    /\ cpc = "report"
    /\ cpc' = "exited"
    /\ exitStatus' = << 0 >>
    /\ UNCHANGED <<modelFile, outDirExists, model, input_shape, output_classes,
                   tfjs_model_config, fsWrites>>
    /\ UNCHANGED uvars

ConvertInit ==
    /\ modelFile \in ModelFiles
    /\ outDirExists \in BOOLEAN
    /\ cpc = "load"
    /\ model = NoModel
    /\ input_shape = << >>
    /\ output_classes = 0
    /\ tfjs_model_config = NoConfig
    /\ fsWrites = << >>
    /\ exitStatus = << >>

\* the script, one step at a time
convert_model ==
    \/ LoadModel
    \/ ExtractShapes
    \/ BuildConfig
    \/ WriteJson
    \/ Report

(***************************************************************************)
(* Specifications                                                          *)
(***************************************************************************)

Init == UploadInit /\ ConvertInit

Next ==
    \/ GetToken
    \/ ApiSetup
    \/ RepoInfo
    \/ ProcessFile
    \/ UploadVariables
    \/ Summary
    \/ LoadModel
    \/ ExtractShapes
    \/ BuildConfig
    \/ WriteJson
    \/ Report

Spec == Init /\ [][Next]_vars

\* Both scripts are straight-line Python programs run to completion by the
\* interpreter: a step that can be taken is eventually taken.
FairSpec == Spec /\ WF_vars(upload_files) /\ WF_vars(convert_model)

(***************************************************************************)
(* Properties of upload_files                                              *)
(***************************************************************************)

\* upload_files has ended, by return or by an exception leaving it.
Terminated == upc \in {"returned", "raised"}

\* The run got past the credential check and the repository check.
PassedChecks ==
    /\ HF_TOKEN \notin {None, ""}
    /\ \E i \in DOMAIN calls : calls[i].op = "repo_info" /\ calls[i].ok

RepoLookupFailed == \E i \in DOMAIN calls : calls[i].op = "repo_info" /\ ~calls[i].ok

CallsOf(op) == { i \in DOMAIN calls : calls[i].op = op }
CallsFor(op, arg) == { i \in DOMAIN calls : calls[i].op = op /\ calls[i].arg = arg }
Printed(text) == { i \in DOMAIN out : out[i].text = text }
PrintedFor(text, arg) == { i \in DOMAIN out : out[i].text = text /\ out[i].arg = arg }

ManifestIdx == 1..Len(files_to_upload)
MissingFiles == { i \in ManifestIdx : files_to_upload[i] \notin localFs }

\* Index of a path in the manifest (0 when it is not a manifest file).
IndexOf(path) ==
    IF \E i \in ManifestIdx : files_to_upload[i] = path
    THEN CHOOSE i \in ManifestIdx : files_to_upload[i] = path
    ELSE 0

SummaryEmitted ==
    /\ Len(out) >= 3
    /\ out[Len(out) - 2].text = "Upload complete!"
    /\ out[Len(out) - 1] = Line("Model available at: https://huggingface.co/", repo_id)
    /\ out[Len(out)].text = "Ready to use your custom CIFAR-10 model in the classifier!"

DirReports == Printed("Uploaded variables directory") \cup Printed("Failed to upload variables: ")

\* C1: a run that starts with HF_TOKEN unset or empty never makes a remote
\* call (no repo_info, no upload_file, no upload_folder) and ends by returning
\* from the credential check.
C1_NoCredentialNoRemoteCall ==
    HF_TOKEN \in {None, ""} => /\ calls = << >>
                               /\ upc \in {"start", "returned"}

C1_Witness ==
    /\ HF_TOKEN = ""
    /\ upc = "returned"
    /\ localFs = LocalPaths

\* C2: once the repository lookup has failed the run has stopped and no
\* upload_file or upload_folder call is ever made, whatever exists locally.
C2_RepoLookupFailedNoUpload ==
    RepoLookupFailed => /\ upc = "returned"
                        /\ CallsOf("upload_file") = {}
                        /\ CallsOf("upload_folder") = {}
                        /\ Len(calls) = 1

C2_Witness ==
    /\ RepoLookupFailed
    /\ upc = "returned"
    /\ localFs = LocalPaths

\* C3: a run that passed both checks and has ended attempted exactly k-m file
\* uploads and printed exactly m "File not found" warnings (k manifest files,
\* m of them missing locally), and processed every manifest file: each one
\* that exists got its upload attempt and each missing one its warning.
C3_EveryManifestFileProcessed ==
    (Terminated /\ PassedChecks) =>
        /\ Cardinality(CallsOf("upload_file")) = Len(files_to_upload) - Cardinality(MissingFiles)
        /\ Cardinality(Printed("File not found: ")) = Cardinality(MissingFiles)
        /\ \A i \in ManifestIdx :
              LET f == files_to_upload[i] IN
              /\ \E j \in DOMAIN probed : probed[j] = f
              /\ IF i \in MissingFiles
                 THEN /\ Cardinality(PrintedFor("File not found: ", f)) = 1
                      /\ CallsFor("upload_file", f) = {}
                 ELSE /\ Cardinality(CallsFor("upload_file", f)) = 1
                      /\ PrintedFor("File not found: ", f) = {}

\* the first file fails to upload, the second is missing, the third is uploaded
C3_Witness ==
    /\ Terminated /\ PassedChecks
    /\ MissingFiles = {2}
    /\ \E i \in CallsFor("upload_file", files_to_upload[1]) : ~calls[i].ok
    /\ \E i \in CallsFor("upload_file", files_to_upload[3]) : calls[i].ok

\* C6: every run that passes both checks ends by returning with the
\* completion summary as its last output, whatever is missing locally and
\* whichever uploads fail.
C6_PassedChecksLeadsToSummary ==
    [](PassedChecks => <>(upc = "returned" /\ SummaryEmitted))

C6_Witness ==
    /\ upc = "returned" /\ PassedChecks /\ SummaryEmitted
    /\ MissingFiles = {1}
    /\ \E i \in CallsOf("upload_file") : ~calls[i].ok
    /\ \E i \in CallsOf("upload_folder") : ~calls[i].ok

\* C7 as stated: every run that passed both checks and has ended has printed
\* a success report or an error report for the variables directory.
C7_DirectoryAlwaysReported ==
    (Terminated /\ PassedChecks) => DirReports # {}

\* C7 amended: every run that passed both checks and has ended has looked at
\* the variables directory, after the manifest files and whatever their
\* outcomes; when the directory exists there is exactly one upload_folder
\* call and exactly one report for it (success when the call succeeded, error
\* when it failed); when it does not exist there is no call and no report.
C7_DirectoryReportedWhenPresent ==
    (Terminated /\ PassedChecks) =>
        /\ probed = files_to_upload \o << variables_dir >>
        /\ IF variables_dir \in localFs
           THEN /\ Cardinality(CallsOf("upload_folder")) = 1
                /\ Cardinality(DirReports) = 1
                /\ \A i \in CallsOf("upload_folder") :
                      IF calls[i].ok
                      THEN Printed("Uploaded variables directory") # {}
                      ELSE Printed("Failed to upload variables: ") # {}
           ELSE /\ CallsOf("upload_folder") = {}
                /\ DirReports = {}

\* every file upload failed and the directory is still uploaded and reported
C7_Witness ==
    /\ Terminated /\ PassedChecks
    /\ localFs = LocalPaths
    /\ \A i \in CallsOf("upload_file") : ~calls[i].ok
    /\ \E i \in CallsOf("upload_folder") : calls[i].ok
    /\ Printed("Uploaded variables directory") # {}

\* C10: remote calls are never repeated and keep the order of the script:
\* repo_info is the first call and the only repo_info call, every run that
\* got to the repository check made it, any upload follows a successful
\* repo_info, each manifest file has at most one upload_file call and these
\* come in manifest order, and upload_folder is called at most once, as the
\* last call, after every manifest file has been processed.
C10_SequentialNoRetry ==
    /\ \A i \in CallsOf("repo_info") : i = 1
    /\ upc \in {"loop", "dir", "summary"} => Cardinality(CallsOf("repo_info")) = 1
    /\ (CallsOf("upload_file") \cup CallsOf("upload_folder")) # {} =>
          calls[1].op = "repo_info" /\ calls[1].ok
    /\ \A i \in CallsOf("upload_file") : IndexOf(calls[i].arg) \in ManifestIdx
    /\ \A i, j \in CallsOf("upload_file") :
          i < j => IndexOf(calls[i].arg) < IndexOf(calls[j].arg)
    /\ Cardinality(CallsOf("upload_folder")) <= 1
    /\ \A i \in CallsOf("upload_folder") :
          /\ i = Len(calls)
          /\ fileIdx > Len(files_to_upload)
          /\ \A k \in ManifestIdx : \E j \in DOMAIN probed : probed[j] = files_to_upload[k]

\* all three files and the directory attempted, one file upload failed
C10_Witness ==
    /\ upc = "returned"
    /\ Len(calls) = 5
    /\ \E i \in CallsOf("upload_file") : ~calls[i].ok

(***************************************************************************)
(* Properties of convert_model.py                                          *)
(***************************************************************************)

\* The descriptor has been built.
Synthesized == tfjs_model_config.format = "layers-model"

LoadFailed == modelFile.state # "ok"

ConfigLayers == tfjs_model_config.modelTopology.model_config.config.layers
ManifestWeights == tfjs_model_config.weightsManifest[1].weights

\* The class count N of the trained model: the final dimension of its first
\* output tensor.
ModelClasses == modelFile.outputs[1][Len(modelFile.outputs[1])]

\* C4: when the model cannot be loaded from model_path the process ends with
\* exit status 1 at the load step and nothing is ever written to
\* public/tfjs_model/model.json.
C4_LoadFailureExitsWithoutWrite ==
    LoadFailed => /\ fsWrites = << >>
                  /\ cpc \in {"load", "exited"}
                  /\ cpc = "exited" => exitStatus = << 1 >>
                  /\ cpc = "load" => exitStatus = << >>

C4_Witness ==
    /\ modelFile.state = "missing"
    /\ outDirExists
    /\ cpc = "exited"

\* C5: for a loaded model with class count N the descriptor's last layer is
\* dense_output with units = N, and the last two manifest entries are
\* dense_output/kernel of shape [128, N] and dense_output/bias of shape [N];
\* the document written to model.json is that descriptor.
C5_OutputLayerSizedToClassCount ==
    Synthesized =>
        LET N == ModelClasses
            nl == Len(ConfigLayers)
            nw == Len(ManifestWeights)
        IN  /\ ConfigLayers[nl].class_name = "Dense"
            /\ ConfigLayers[nl].config.name = "dense_output"
            /\ ConfigLayers[nl].config.units = N
            /\ nw >= 2
            /\ ManifestWeights[nw - 1].name = "dense_output/kernel"
            /\ ManifestWeights[nw - 1].shape = << 128, N >>
            /\ ManifestWeights[nw].name = "dense_output/bias"
            /\ ManifestWeights[nw].shape = << N >>
            /\ \A i \in DOMAIN fsWrites : fsWrites[i].doc = tfjs_model_config

\* a three-class model whose descriptor has been written
C5_Witness ==
    /\ Synthesized
    /\ ModelClasses = 3
    /\ Len(fsWrites) = 1

\* ceil(a / b) for positive b
CeilDiv(a, b) == (a + b - 1) \div b

\* Output extent of a convolution or pooling window along one axis.
OutExtent(n, window, stride, padding) ==
    IF padding = "same" THEN CeilDiv(n, stride)
                        ELSE ((n - window) \div stride) + 1

\* The shapes of the learnable tensors the topology implies, in layer order:
\* `act` is the shape of the activation entering layer i (without the batch
\* dimension).
RECURSIVE ImpliedShapes(_, _, _)
ImpliedShapes(layers, i, act) ==
    IF i > Len(layers) THEN << >>
    ELSE LET l == layers[i]
             c == l.config
         IN  CASE l.class_name = "InputLayer" ->
                    ImpliedShapes(layers, i + 1, Tail(c.batch_input_shape))
               [] l.class_name = "Conv2D" ->
                    << << c.kernel_size[1], c.kernel_size[2], act[3], c.filters >>,
                       << c.filters >> >>
                    \o ImpliedShapes(layers, i + 1,
                          << OutExtent(act[1], c.kernel_size[1], c.strides[1], c.padding),
                             OutExtent(act[2], c.kernel_size[2], c.strides[2], c.padding),
                             c.filters >>)
               [] l.class_name = "MaxPooling2D" ->
                    ImpliedShapes(layers, i + 1,
                          << OutExtent(act[1], c.pool_size[1], c.strides[1], c.padding),
                             OutExtent(act[2], c.pool_size[2], c.strides[2], c.padding),
                             act[3] >>)
               [] l.class_name = "Flatten" ->
                    ImpliedShapes(layers, i + 1, << act[1] * act[2] * act[3] >>)
               [] l.class_name = "Dense" ->
                    << << act[1], c.units >>, << c.units >> >>
                    \o ImpliedShapes(layers, i + 1, << c.units >>)

ManifestShapes == [ i \in DOMAIN ManifestWeights |-> ManifestWeights[i].shape ]

\* C8: every shape of the weights manifest is the shape the topology implies
\* for that tensor; in particular the first dimension of dense_1/kernel is
\* the flattened size after the second pooling layer.
C8_ManifestShapesMatchTopology ==
    Synthesized => ManifestShapes = ImpliedShapes(ConfigLayers, 1, << >>)

\* The layers with learnable parameters, in topology order.
ParamLayers == SelectSeq(ConfigLayers, LAMBDA l : l.class_name \in {"Conv2D", "Dense"})

\* C9: the manifest names exactly the parameters of the topology's learnable
\* layers: these are conv2d_1, conv2d_2, dense_1 and dense_output, each has
\* use_bias true, and the manifest lists, in topology order, one
\* <layer>/kernel entry followed by one <layer>/bias entry for each of them
\* and nothing else.
C9_ManifestNamesMatchTopology ==
    Synthesized =>
        /\ [ i \in DOMAIN ParamLayers |-> ParamLayers[i].config.name ]
              = << "conv2d_1", "conv2d_2", "dense_1", "dense_output" >>
        /\ \A i \in DOMAIN ParamLayers : ParamLayers[i].config.use_bias
        /\ \A i \in DOMAIN ConfigLayers :
              ConfigLayers[i].class_name \notin {"Conv2D", "Dense"} =>
                  "use_bias" \notin DOMAIN ConfigLayers[i].config
        /\ Len(ManifestWeights) = 2 * Len(ParamLayers)
        /\ \A i \in DOMAIN ParamLayers :
              /\ ManifestWeights[2 * i - 1].name = ParamLayers[i].config.name \o "/kernel"
              /\ ManifestWeights[2 * i].name = ParamLayers[i].config.name \o "/bias"

\* a seven-class model whose descriptor has been built
C9_Witness ==
    /\ Synthesized
    /\ ModelClasses = 7
    /\ cpc = "write"

====
